---- MODULE Spec2Model ----
(***************************************************************************)
(* Model of the versioned model store (core/services/models/model_store.py)*)
(* and of the training orchestration built on it                           *)
(* (core/services/models/training_service.py, models/registry.py,          *)
(* core/services/dataset/dataset_service.py).                              *)
(*                                                                         *)
(* The store is two pieces of persistent state: the index file             *)
(* artifacts/models/index.json and the artifact files                      *)
(* artifacts/models/<model_id>.joblib.  Every handler is modelled twice    *)
(* from the same primitive operators: as a pure "Run" operator that        *)
(* executes the whole handler in program order (used by the sequential     *)
(* specifications), and as a process that executes the same primitives one *)
(* system call at a time (used by the concurrent specification Spec).      *)
(***************************************************************************)
EXTENDS Integers, Sequences, FiniteSets, TLC

VARIABLES
    indexFile,  \* contents of INDEX_PATH (artifacts/models/index.json)
    artifacts,  \* the *.joblib files of MODELS_DIR: model_id -> file contents
    issued,     \* ids uuid4() has already produced (it never repeats one)
    last,       \* the call a sequential client has just made, and what it got
    deleted,    \* history: ids deleted and not saved again since
    procs,      \* concurrent request threads: program counter and locals
    written,    \* history: the thread whose index write ended last, and its text
    registry,   \* registry._specs: model key -> the defaults dict of its ModelSpec
    held,       \* the mappings defaults() has handed to callers
    answered    \* history: an earlier predict call a client keeps the answer of

vars == <<indexFile, artifacts, issued, last, deleted, procs, written, registry, held, answered>>

(***************************************************************************)
(* Bounds of the model.                                                    *)
(***************************************************************************)
NumNamed == 1   \* model ids a caller may invent
NumUuids == 1   \* model ids uuid4() may allocate
NumProcs == 2   \* concurrent request threads
MaxHeld == 2    \* mappings callers keep from defaults()

NamedIds == 1..NumNamed
Uuids == (NumNamed + 1)..(NumNamed + NumUuids)
ModelIds == NamedIds \cup Uuids
Procs == 1..NumProcs

\* model_id: Optional[str] = None; "" is as falsy as None in `model_id or uuid4().hex`
NoId == 0

(***************************************************************************)
(* Python dicts: functions on a finite key set.                            *)
(***************************************************************************)
EmptyDict == [k \in {} |-> k]

DictPutAlone(d, k, v) == [x \in {k} |-> v]

\* d[k] = v
DictPut(d, k, v) == [x \in DOMAIN d \cup {k} |-> IF x = k THEN v ELSE d[x]]

DictPopKeeps(d, k) == d

\* d.pop(k, None)
DictPop(d, k) == [x \in DOMAIN d \ {k} |-> d[x]]

\* {**a, **b}: the keys of b win
DictMerge(a, b) == b @@ a

(***************************************************************************)
(* The index file.  Its text is kept parsed: "json" is a well-formed       *)
(* document holding the index ix, "empty" is a file of zero bytes (what    *)
(* open(..., "w") leaves before any byte is written), "torn" is text that  *)
(* json.loads rejects, "absent" is no file.  len is the size of the text,  *)
(* which decides what a write at offset 0 through another descriptor       *)
(* leaves behind.                                                          *)
(***************************************************************************)
\* size of one serialised record: one unit per key, one per feature name
EntryLen(rec) ==
    Cardinality(DOMAIN rec)
        + (IF "features" \in DOMAIN rec THEN Len(rec.features) ELSE 0)

RECURSIVE SumLen(_, _)
SumLen(ix, S) ==
    IF S = {} THEN 0
    ELSE LET k == CHOOSE x \in S : TRUE
         IN EntryLen(ix[k]) + SumLen(ix, S \ {k})

\* len(json.dumps(index, ensure_ascii=False, indent=2)); "{}" is two bytes
JsonLen(ix) == 2 + SumLen(ix, DOMAIN ix)

AbsentFile == [st |-> "absent", ix |-> EmptyDict, len |-> 0]
EmptyFile == [st |-> "empty", ix |-> EmptyDict, len |-> 0]
JsonFile(ix) == [st |-> "json", ix |-> ix, len |-> JsonLen(ix)]
TornFile(n) == [st |-> "torn", ix |-> EmptyDict, len |-> n]

\* open(INDEX_PATH, "w"): O_CREAT | O_TRUNC
OpenTrunc(f) == EmptyFile

\* the write of the whole text at offset 0 of the descriptor, then close: bytes
\* another descriptor wrote beyond the new text's end stay in the file
WriteAtZero(f, ix) ==
    IF JsonLen(ix) >= f.len THEN JsonFile(ix) ELSE TornFile(f.len)

\* INDEX_PATH.write_text(json.dumps(index, ...)) run without interruption.
\* fault: "none"; "write_open" (open raises, nothing changed); "write_empty"
\* (the write raises after the truncation); "write_partial" (it raises after
\* some bytes)
WriteText(f, ix, fault) ==
    CASE fault = "write_open" -> f
      [] fault = "write_empty" -> OpenTrunc(f)
      [] fault = "write_partial" -> TornFile(1)
      [] OTHER -> WriteAtZero(OpenTrunc(f), ix)

WriteFaults == {"write_open", "write_empty", "write_partial"}

\* _ensure(): mkdir(exist_ok=True) is idempotent; the index is created only
\* when INDEX_PATH does not exist
Ensure(f) == IF f.st = "absent" THEN WriteText(f, EmptyDict, "none") ELSE f

\* json.loads(INDEX_PATH.read_text() or "{}") of a file that exists
Readable(f) == f.st # "torn"
ParseIndex(f) == IF f.st = "json" THEN f.ix ELSE EmptyDict

\* the entries a reader of the index would see now
Entries(f) == DOMAIN ParseIndex(f)

\* MODELS_DIR / f"{model_id}.joblib"
model_path(model_id) == <<"artifacts/models", model_id, ".joblib">>

(***************************************************************************)
(* Artifact files.  A file holds the pickled pipeline; ok = FALSE is a     *)
(* file joblib.dump left half written, which joblib.load rejects.          *)
(***************************************************************************)
DumpFaults == {"dump_open", "dump_partial"}

\* dump(pipeline, path): open(path, "wb") truncates, then the pickle is written
Dump(arts, mid, pipeline, fault) ==
    CASE fault = "dump_open" -> arts
      [] fault = "dump_partial" -> DictPut(arts, mid, [ok |-> FALSE, pipe |-> pipeline])
      [] OTHER -> DictPut(arts, mid, [ok |-> TRUE, pipe |-> pipeline])

\* datetime.utcnow().isoformat(timespec="seconds") + "Z"
Now == "utcnow"

PayloadMetaWins(meta, mid, now) ==
    DictMerge([model_id |-> mid, path |-> model_path(mid), created_at |-> now], meta)

\* payload = {**meta, "model_id": mid, "path": str(path), "created_at": ...}
Payload(meta, mid, now) ==
    DictMerge(meta, [model_id |-> mid, path |-> model_path(mid), created_at |-> now])

ChooseIdAlwaysNew(model_id, uuid) == uuid

\* mid = model_id or uuid4().hex
ChooseId(model_id, uuid) == IF model_id = NoId THEN uuid ELSE model_id

(***************************************************************************)
(* The store's handlers, each run from its first line to its return or to  *)
(* the exception that ends it.  s = [file, arts] is the store before the   *)
(* call; the result carries the store after it.  fault names the one       *)
(* system call that raises during the run ("none": none does).             *)
(***************************************************************************)
\* dump(pipeline, path) is called bare: what it raises leaves save_model
DumpRaises(fault) == fault \in DumpFaults

WriteRaisesNever(fault) == FALSE

\* _write_index(index) is called bare: what it raises leaves the handler
WriteRaises(fault) == fault \in WriteFaults

SaveModelRun(s, pipeline, meta, model_id, uuid, now, fault) ==
    LET f1 == Ensure(Ensure(s.file))
        mid == ChooseId(model_id, uuid)
        arts2 == Dump(s.arts, mid, pipeline, fault)
        index == DictPut(ParseIndex(f1), mid, Payload(meta, mid, now))
    IN  IF ~Readable(f1)
        THEN [file |-> f1, arts |-> s.arts, status |-> "JSONDecodeError",
              mid |-> NoId, target |-> NoId]
        ELSE IF DumpRaises(fault)
        THEN [file |-> f1, arts |-> arts2, status |-> "OSError",
              mid |-> NoId, target |-> mid]
        ELSE IF WriteRaises(fault)
        THEN [file |-> WriteText(f1, index, fault), arts |-> arts2,
              status |-> "OSError", mid |-> NoId, target |-> mid]
        ELSE [file |-> WriteText(f1, index, fault), arts |-> arts2,
              status |-> "ok", mid |-> mid, target |-> mid]

ExistedIndexOnly(inIndex, hasFile) == inIndex

\* existed, as delete_model accumulates it
Existed(inIndex, hasFile) == inIndex \/ hasFile

UnlinkSkipped(arts, model_id) == arts

\* p.unlink() under `if p.exists()`
Unlink(arts, model_id) == [x \in DOMAIN arts \ {model_id} |-> arts[x]]

DeleteModelRun(s, model_id, fault) ==
    LET f1 == Ensure(Ensure(s.file))
        index == ParseIndex(f1)
        inIndex == model_id \in DOMAIN index
        hasFile == model_id \in DOMAIN s.arts
        f2 == IF inIndex THEN WriteText(f1, DictPop(index, model_id), fault) ELSE f1
    IN  IF ~Readable(f1)
        THEN [file |-> f1, arts |-> s.arts, status |-> "JSONDecodeError", existed |-> FALSE]
        ELSE IF inIndex /\ WriteRaises(fault)
        THEN [file |-> f2, arts |-> s.arts, status |-> "OSError", existed |-> FALSE]
        ELSE IF hasFile /\ fault = "unlink"
        THEN [file |-> f2, arts |-> s.arts, status |-> "OSError", existed |-> FALSE]
        ELSE [file |-> f2, arts |-> Unlink(s.arts, model_id), status |-> "ok",
              existed |-> Existed(inIndex, hasFile)]

NoPipe == [prep |-> <<>>, model |-> [cls |-> "none", params |-> EmptyDict], data |-> <<>>]

MissingOrNoFile(index, model_id) ==
    model_id \notin DOMAIN index \/ model_id \notin DOMAIN artifacts

\* `if model_id not in index` of load_model
Missing(index, model_id) == model_id \notin DOMAIN index

LoadModelRun(s, model_id, fault) ==
    LET f1 == Ensure(Ensure(s.file))
        index == ParseIndex(f1)
        fail(e) == [file |-> f1, arts |-> s.arts, status |-> e,
                    pipe |-> NoPipe, meta |-> EmptyDict]
    IN  IF ~Readable(f1) THEN fail("JSONDecodeError")
        ELSE IF Missing(index, model_id) THEN fail("ModelNotFoundError")
        ELSE IF model_id \notin DOMAIN s.arts THEN fail("FileNotFoundError")
        ELSE IF fault = "load" THEN fail("OSError")
        ELSE IF ~s.arts[model_id].ok THEN fail("UnpicklingError")
        ELSE [file |-> f1, arts |-> s.arts, status |-> "ok",
              pipe |-> s.arts[model_id].pipe, meta |-> index[model_id]]

\* list(idx.values()); the iteration order is abstracted to ascending id
RECURSIVE Values(_, _)
Values(ix, S) ==
    IF S = {} THEN <<>>
    ELSE LET k == CHOOSE x \in S : \A y \in S : x <= y
         IN <<ix[k]>> \o Values(ix, S \ {k})

ListModelsRun(s) ==
    LET f1 == Ensure(Ensure(s.file))
    IN  IF ~Readable(f1)
        THEN [file |-> f1, arts |-> s.arts, status |-> "JSONDecodeError", listed |-> <<>>]
        ELSE [file |-> f1, arts |-> s.arts, status |-> "ok",
              listed |-> Values(ParseIndex(f1), Entries(f1))]

(***************************************************************************)
(* The model registry (models/registry.py).                                *)
(***************************************************************************)
\* registry.register(ModelSpec(...)) at import time; max_depth=None is "None"
RegistryDefaults ==
    [logistic_regression |-> [C |-> 1, max_iter |-> 200, solver |-> "lbfgs"],
     random_forest |-> [n_estimators |-> 200, max_depth |-> "None",
                        random_state |-> 42, n_jobs |-> -1]]

RegistryCls ==
    [logistic_regression |-> "LogisticRegression",
     random_forest |-> "RandomForestClassifier"]

SpecBuildForwardsAll(cls, defaults, params) ==
    [cls |-> cls, params |-> DictMerge(defaults, params)]

\* ModelSpec.build: clean = params restricted to the default keys;
\* merged = {**defaults, **clean}; cls(**merged)
SpecBuild(cls, defaults, params) ==
    LET allowed == DOMAIN defaults
        clean == [k \in DOMAIN params \cap allowed |-> params[k]]
    IN  [cls |-> cls, params |-> DictMerge(defaults, clean)]

BuildModelFallsBack(model_key, params) ==
    LET key == IF model_key \in DOMAIN RegistryDefaults
               THEN model_key ELSE "logistic_regression"
    IN  [status |-> "ok",
         est |-> SpecBuild(RegistryCls[key], RegistryDefaults[key], params)]

\* build_model -> registry.build -> registry.get(key).build(params)
BuildModel(model_key, params) ==
    IF model_key \notin DOMAIN RegistryDefaults
    THEN [status |-> "KeyError", est |-> NoPipe.model]
    ELSE [status |-> "ok",
          est |-> SpecBuild(RegistryCls[model_key], RegistryDefaults[model_key], params)]

(***************************************************************************)
(* The dataset files a training call can name (data/datasets/<id>.csv):    *)
(* two readable tables, a table that holds only the target, a file         *)
(* pd.read_csv rejects; any other id names no file.                        *)
(***************************************************************************)
DatasetFiles ==
    [d1 |-> [readable |-> TRUE, columns |-> <<"age", "city", "target">>],
     d2 |-> [readable |-> TRUE, columns |-> <<"x", "target">>],
     d0 |-> [readable |-> TRUE, columns |-> <<"target">>],
     bad |-> [readable |-> FALSE, columns |-> <<>>]]

\* load_df
LoadDf(dataset_id) ==
    IF dataset_id \notin DOMAIN DatasetFiles
    THEN [status |-> "DatasetNotFoundError", columns |-> <<>>]
    ELSE IF ~DatasetFiles[dataset_id].readable
    THEN [status |-> "DatasetReadError", columns |-> <<>>]
    ELSE [status |-> "ok", columns |-> DatasetFiles[dataset_id].columns]

InSeq(x, sq) == \E i \in 1..Len(sq) : sq[i] = x

FeatureOrderKeepsTarget(columns, target_column) == columns

\* df.drop(columns=[target_column]).columns; _build_preprocessor returns
\* list(X.columns) as the feature order
FeatureOrder(columns, target_column) ==
    SelectSeq(columns, LAMBDA c : c # target_column)

\* train_test_split accepts a float test_size only inside (0, 1); here in percent
SplitOk(test_size) == 0 < test_size /\ test_size < 100

\* the fitted Pipeline([("prep", preprocessor), ("model", model)])
Fit(feature_order, est, dataset_id, target_column, test_size) ==
    [prep |-> feature_order, model |-> est,
     data |-> <<dataset_id, target_column, test_size>>]

\* {"accuracy": float(accuracy_score(y_test, y_pred))}: a number the fitted
\* pipeline and the holdout determine
Metrics(pipe) == [accuracy |-> <<"accuracy_score", pipe.data>>]

\* the meta dict of train_model
TrainMeta(req, feature_order, metrics) ==
    [model_key |-> req.model_key, dataset_id |-> req.dataset_id,
     target_column |-> req.target_column, features |-> feature_order,
     metrics |-> metrics, hyperparams |-> req.hyperparams,
     test_size |-> req.test_size, shuffle |-> TRUE, random_state |-> 42]

(***************************************************************************)
(* Experiment tracking (clearml_integration.py) as train_model drives it.  *)
(* track is what the tracker does during this call: "ok"; "no_sdk" (Task   *)
(* is None); "init_raises", "log_raises", "register_raises",               *)
(* "close_raises" (the named call raises); "reload_raises" (the re-load of *)
(* the saved record raises).                                               *)
(***************************************************************************)
TrackOutcomes ==
    {"ok", "no_sdk", "init_raises", "log_raises", "reload_raises",
     "register_raises", "close_raises"}

\* start_task returns None when the SDK is missing or Task.init raises
TaskStarted(track) == track \notin {"no_sdk", "init_raises"}

OuterExceptMissing(exc) == exc

\* the outer `except Exception: pass` of train_model
OuterExcept(exc) == "none"

\* lines 104-129 of train_model after a save that returned mid
TrackingRun(s, mid, track) ==
    LET reload == LoadModelRun(s, mid, IF track = "reload_raises" THEN "load" ELSE "none")
        raised == IF reload.status # "ok" THEN reload.status ELSE "none"
    IN  [file |-> reload.file, arts |-> reload.arts,
         escaped |-> OuterExcept(raised),
         registered |-> TaskStarted(track) /\ raised = "none"
                          /\ track # "register_raises"]

NoReq ==
    [dataset_id |-> "none", target_column |-> "none", model_key |-> "none",
     hyperparams |-> EmptyDict, test_size |-> 0, model_id |-> NoId]

\* train_model from the return of store_save_model to its own return
AfterSave(saved, pipe, metrics, track) ==
    IF saved.status # "ok"
    THEN [file |-> saved.file, arts |-> saved.arts, status |-> saved.status,
          stage |-> "save", mid |-> NoId, target |-> saved.target,
          metrics |-> EmptyDict, pipe |-> pipe, registered |-> FALSE]
    ELSE CHOOSE out \in
           {[file |-> tracked.file, arts |-> tracked.arts,
             status |-> IF tracked.escaped = "none" THEN "ok" ELSE tracked.escaped,
             stage |-> "tracking", mid |-> saved.mid, target |-> saved.mid,
             metrics |-> metrics, pipe |-> pipe, registered |-> tracked.registered]
            : tracked \in {TrackingRun([file |-> saved.file, arts |-> saved.arts],
                                       saved.mid, track)}} : TRUE

\* train_model, from load_df to its return or to the exception that ends it
TrainModelRun(s, req, uuid, now, fault, track) ==
    LET df == LoadDf(req.dataset_id)
        feature_order == FeatureOrder(df.columns, req.target_column)
        built == BuildModel(req.model_key, req.hyperparams)
        pipe == Fit(feature_order, built.est, req.dataset_id, req.target_column,
                    req.test_size)
        metrics == Metrics(pipe)
        fail(stage, e) ==
            [file |-> s.file, arts |-> s.arts, status |-> e, stage |-> stage,
             mid |-> NoId, target |-> NoId, metrics |-> EmptyDict,
             pipe |-> NoPipe, registered |-> FALSE]
    IN  IF df.status # "ok" THEN fail("load_df", df.status)
        ELSE IF ~InSeq(req.target_column, df.columns)
        THEN fail("target", "TargetColumnNotFoundError")
        ELSE IF built.status # "ok" THEN fail("build", built.status)
        ELSE IF ~SplitOk(req.test_size) THEN fail("split", "ValueError")
        ELSE IF feature_order = <<>> THEN fail("fit", "ValueError")
        ELSE CHOOSE out \in
               {AfterSave(saved, pipe, metrics, track)
                : saved \in {SaveModelRun(s, pipe, TrainMeta(req, feature_order, metrics),
                                          req.model_id, uuid, now, fault)}} : TRUE

(***************************************************************************)
(* Inference (core/services/models/inference_service.py).  An instance is  *)
(* a dict, kept as the sequence of its <<key, value>> items in insertion   *)
(* order; a table is its column names in order and one row per record,     *)
(* each row a function from the column names to cell values.               *)
(***************************************************************************)
\* NaN and None: the cell of a column an instance has no value for
Null == "null"

HasKey(inst, k) == \E i \in 1..Len(inst) : inst[i][1] = k

\* inst[k], Null when the key is not there
Get(inst, k) ==
    IF HasKey(inst, k)
    THEN inst[CHOOSE i \in 1..Len(inst) : inst[i][1] = k][2]
    ELSE Null

\* the keys of inst that are not in cols, appended to cols in inst's order
RECURSIVE AppendNew(_, _)
AppendNew(cols, inst) ==
    IF inst = <<>> THEN cols
    ELSE AppendNew(IF InSeq(Head(inst)[1], cols) THEN cols
                   ELSE Append(cols, Head(inst)[1]),
                   Tail(inst))

\* the columns of pd.DataFrame(instances): every key, in order of first appearance
RECURSIVE ColumnsOf(_)
ColumnsOf(instances) ==
    IF instances = <<>> THEN <<>>
    ELSE AppendNew(ColumnsOf(SubSeq(instances, 1, Len(instances) - 1)),
                   instances[Len(instances)])

SeqToSet(sq) == {sq[i] : i \in 1..Len(sq)}

DataFrameDropsSparse(instances) ==
    LET cols == ColumnsOf(instances)
        whole == SelectSeq(instances, LAMBDA inst : \A c \in SeqToSet(cols) : HasKey(inst, c))
    IN  [columns |-> cols,
         rows |-> [i \in 1..Len(whole) |-> [c \in SeqToSet(cols) |-> Get(whole[i], c)]]]

\* X = pd.DataFrame(instances): one row per instance, in order
DataFrame(instances) ==
    LET cols == ColumnsOf(instances)
    IN  [columns |-> cols,
         rows |-> [i \in 1..Len(instances) |->
                     [c \in SeqToSet(cols) |-> Get(instances[i], c)]]]

\* for c in feats: if c not in X.columns: X[c] = None
RECURSIVE AddMissing(_, _)
AddMissing(X, feats) ==
    IF feats = <<>> THEN X
    ELSE LET c == Head(feats)
             X1 == IF InSeq(c, X.columns) THEN X
                   ELSE [columns |-> Append(X.columns, c),
                         rows |-> [i \in 1..Len(X.rows) |->
                                     [d \in DOMAIN X.rows[i] \cup {c} |->
                                        IF d = c THEN Null ELSE X.rows[i][d]]]]
         IN  AddMissing(X1, Tail(feats))

SelectKeepsAll(X, feats) == X

\* X = X[feats]
Select(X, feats) ==
    [columns |-> feats,
     rows |-> [i \in 1..Len(X.rows) |-> [c \in SeqToSet(feats) |-> X.rows[i][c]]]]

\* lines 30-37 of predict: the table handed to the pipeline
Table(instances, meta) ==
    LET feats == IF "features" \in DOMAIN meta THEN meta.features ELSE <<>>
        X == DataFrame(instances)
    IN  IF feats # <<>> THEN Select(AddMissing(X, feats), feats) ELSE X

\* the cells of row i of X in column order
RowCells(X, i) == [j \in 1..Len(X.columns) |-> X.rows[i][X.columns[j]]]

\* what the fitted pipeline answers for one row: a value the pipeline and the
\* row determine
Label(pipe, cells) == <<"label", pipe.data, cells>>
Proba(pipe, cells) == <<"proba", pipe.data, cells>>

\* pipe.predict(X).tolist(): one label per row, in row order
PipePredict(pipe, X) == [i \in 1..Len(X.rows) |-> Label(pipe, RowCells(X, i))]

\* what pipe.predict(X) does with this table: "ok", or "predict_raises" (a
\* ValueError from a step, e.g. a cell it cannot convert)
PredictOutcomes == {"ok", "predict_raises"}

\* what lines 43-48 do: "ok"; "no_named_steps" and "no_predict_proba" (the
\* `if` is false); "no_prep_step", "transform_raises", "proba_raises" (the
\* named call raises)
ProbaOutcomes ==
    {"ok", "no_named_steps", "no_predict_proba", "no_prep_step",
     "transform_raises", "proba_raises"}

ProbaRaises == {"no_prep_step", "transform_raises", "proba_raises"}

ProbaExceptMissing(exc) == exc

\* `except Exception: probabilities = None`
ProbaExcept(exc) == "none"

NoInstancesNever(instances) == FALSE

\* `if not instances`
NoInstances(instances) == instances = <<>>

StoreRaisedWrapped(status) == "ValueError"

\* store_load_model(model_id) is called bare: what it raises leaves predict
StoreRaised(status) == status

NoTable == [columns |-> <<>>, rows |-> <<>>]

PredictRunEvicts(s, model_id, instances, fault, predicted, proba) ==
    CHOOSE out \in
      {[file |-> loaded.file,
        arts |-> IF loaded.status = "ok" THEN DictPop(loaded.arts, model_id)
                 ELSE loaded.arts,
        status |-> loaded.status, read |-> TRUE,
        table |-> Table(instances, loaded.meta),
        preds |-> PipePredict(loaded.pipe, Table(instances, loaded.meta)),
        probs |-> "None", pipe |-> loaded.pipe]
       : loaded \in {LoadModelRun(s, model_id, fault)}} : TRUE

\* predict, from its first line to its return or to the exception that ends
\* it; read tells whether store_load_model was called
PredictRun(s, model_id, instances, fault, predicted, proba) ==
    LET fail(f, e, read) ==
            [file |-> f, arts |-> s.arts, status |-> e, read |-> read,
             table |-> NoTable, preds |-> <<>>, probs |-> "None", pipe |-> NoPipe]
    IN  IF NoInstances(instances) THEN fail(s.file, "NoInstancesError", FALSE)
        ELSE CHOOSE out \in
          {IF loaded.status # "ok"
           THEN fail(loaded.file, StoreRaised(loaded.status), TRUE)
           ELSE LET X == Table(instances, loaded.meta)
                    escaped == IF proba \in ProbaRaises THEN ProbaExcept(proba)
                               ELSE "none"
                IN  IF predicted # "ok"
                    THEN [fail(loaded.file, "ValueError", TRUE) EXCEPT
                            !.table = X, !.pipe = loaded.pipe]
                    ELSE [file |-> loaded.file, arts |-> loaded.arts,
                          status |-> IF escaped = "none" THEN "ok" ELSE "Exception",
                          read |-> TRUE, table |-> X,
                          preds |-> PipePredict(loaded.pipe, X),
                          probs |-> IF proba = "ok"
                                    THEN [i \in 1..Len(X.rows) |->
                                            Proba(loaded.pipe, RowCells(X, i))]
                                    ELSE "None",
                          pipe |-> loaded.pipe]
           : loaded \in {LoadModelRun(s, model_id, fault)}} : TRUE

(***************************************************************************)
(* What callers pass.                                                      *)
(***************************************************************************)
\* a pipeline object handed to save_model directly
OpaquePipe(tag) ==
    [prep |-> <<>>, model |-> [cls |-> "Opaque", params |-> EmptyDict],
     data |-> <<"direct", tag, 0>>]

\* direct save_model callers: a plain meta, and a meta that itself carries the
\* keys save_model sets
StoreRuns ==
    {[pipe |-> OpaquePipe("v1"),
      meta |-> [model_key |-> "logistic_regression", features |-> <<"x">>]],
     [pipe |-> OpaquePipe("v2"),
      meta |-> [model_key |-> "random_forest", features |-> <<"x", "y">>,
                model_id |-> NoId, path |-> <<"elsewhere", NoId, ".bin">>,
                created_at |-> "forged"]]}

HyperparamInputs == {EmptyDict, [C |-> 2, bogus_param |-> 1]}

TrainReq(dataset_id, target_column, model_key, hyperparams, test_size) ==
    [dataset_id |-> dataset_id, target_column |-> target_column,
     model_key |-> model_key, hyperparams |-> hyperparams,
     test_size |-> test_size, model_id |-> NoId]

\* requests that train, and one request for each way of failing before the save
TrainInputs ==
    {TrainReq("d1", "target", "logistic_regression", h, 20) : h \in HyperparamInputs}
    \cup {TrainReq("d2", "target", "logistic_regression", EmptyDict, 20),
          TrainReq("gone", "target", "logistic_regression", EmptyDict, 20),
          TrainReq("bad", "target", "logistic_regression", EmptyDict, 20),
          TrainReq("d1", "nope", "logistic_regression", EmptyDict, 20),
          TrainReq("d1", "target", "bogus", EmptyDict, 20),
          TrainReq("d1", "target", "logistic_regression", EmptyDict, 150),
          TrainReq("d0", "target", "logistic_regression", EmptyDict, 20)}

\* the same without the hyperparameter variant
FewTrainInputs == {r \in TrainInputs : r.hyperparams = EmptyDict}

TrainReqs(R) ==
    {[r EXCEPT !.model_id = id] : r \in R, id \in ModelIds \cup {NoId}}

\* the instances lists a predict call is given: none; one whole instance; an
\* instance without "city" before one with its keys in another order; an
\* instance with fields no model was trained on, an empty one and a whole one
InstanceInputs ==
    {<<>>,
     << <<<<"age", 30>>, <<"city", "msk">>>> >>,
     << <<<<"age", 52>>>>, <<<<"city", "spb">>, <<"age", 41>>>> >>,
     << <<<<"extra", 1>>, <<"x", 7>>, <<"age", 63>>>>, <<>>,
        <<<<"age", 30>>, <<"city", "msk">>>> >>}

\* ids a caller can pass: names it invents, or ids an earlier call returned
CallerIds == NamedIds \cup issued

\* uuid4().hex is evaluated only when model_id is falsy, and never repeats
NewUuids(model_id) == IF model_id = NoId THEN Uuids \ issued ELSE {NoId}

SaveFaults == {"none"} \cup DumpFaults \cup WriteFaults
DeleteFaults == {"none", "unlink"} \cup WriteFaults
LoadFaults == {"none", "load"}

Store == [file |-> indexFile, arts |-> artifacts]

NoCall ==
    [op |-> "none", id |-> NoId, status |-> "none", mid |-> NoId,
     existed |-> FALSE, stage |-> "none", req |-> NoReq, pipe |-> NoPipe,
     meta |-> EmptyDict, metrics |-> EmptyDict, listed |-> <<>>,
     fault |-> "none", track |-> "none", registered |-> FALSE,
     hadEntry |-> FALSE, hadFile |-> FALSE, stored |-> 0, wasDeleted |-> FALSE,
     instances |-> <<>>, table |-> NoTable, preds |-> <<>>, probs |-> "None",
     read |-> FALSE, predicted |-> "none", proba |-> "none",
     key |-> "none", params |-> EmptyDict, est |-> NoPipe.model,
     transport |-> "none", protocol |-> "none"]

\* history kept with a call: whether its id had an index entry and an artifact
\* file when it was made, how many entries the index held, and whether the id
\* had been deleted and not saved again
Called(op, id) ==
    [NoCall EXCEPT !.op = op, !.id = id,
                   !.hadEntry = id \in Entries(indexFile),
                   !.hadFile = id \in DOMAIN artifacts,
                   !.stored = Cardinality(Entries(indexFile)),
                   !.wasDeleted = id \in deleted]

\* a request thread between calls; the fields are the locals of the handlers
IdleProc ==
    [pc |-> "idle", op |-> "none", id |-> NoId, ensures |-> 0, mid |-> NoId,
     index |-> EmptyDict, existed |-> FALSE, status |-> "none",
     pipe |-> NoPipe, meta |-> EmptyDict]

NoWrite == [by |-> 0, ix |-> EmptyDict]

\* no answer kept
NoAnswer ==
    [id |-> NoId, instances |-> <<>>, preds |-> <<>>,
     entry |-> EmptyDict, artifact |-> [ok |-> FALSE, pipe |-> NoPipe]]

Init ==
    /\ indexFile = AbsentFile
    /\ artifacts = EmptyDict
    /\ issued = {}
    /\ last = NoCall
    /\ deleted = {}
    /\ procs = [p \in Procs |-> IdleProc]
    /\ written = NoWrite
    /\ registry = RegistryDefaults
    /\ held = <<>>
    /\ answered = NoAnswer

(***************************************************************************)
(* Sequential clients: one call at a time, each run to its end.  F is the  *)
(* set of faults the environment may inject into the call.                 *)
(***************************************************************************)
SaveModel(F) ==
    /\ last = NoCall
    /\    \E run \in StoreRuns, id \in CallerIds \cup {NoId}, fault \in F \cap SaveFaults :
      \E u \in NewUuids(id) :
        \E r \in {SaveModelRun(Store, run.pipe, run.meta, id, u, Now, fault)} :
            /\ indexFile' = r.file
            /\ artifacts' = r.arts
            /\ issued' = IF id = NoId /\ r.target # NoId THEN issued \cup {u} ELSE issued
            /\ deleted' = deleted \ {r.target}
            /\ last' = [Called("save_model", id) EXCEPT
                          !.status = r.status, !.mid = r.mid, !.pipe = run.pipe,
                          !.meta = run.meta, !.fault = fault]
            /\ UNCHANGED <<procs, written, registry, held, answered>>

DeleteModel(F) ==
    /\ last = NoCall
    /\    \E id \in CallerIds, fault \in F \cap DeleteFaults :
        \E r \in {DeleteModelRun(Store, id, fault)} :
            /\ indexFile' = r.file
            /\ artifacts' = r.arts
            /\ deleted' = IF r.status = "ok" THEN deleted \cup {id} ELSE deleted
            /\ last' = [Called("delete_model", id) EXCEPT
                          !.status = r.status, !.existed = r.existed, !.fault = fault]
            /\ UNCHANGED <<issued, procs, written, registry, held, answered>>

LoadModel(F) ==
    /\ last = NoCall
    /\    \E id \in CallerIds, fault \in F \cap LoadFaults :
        \E r \in {LoadModelRun(Store, id, fault)} :
            /\ indexFile' = r.file
            /\ artifacts' = r.arts
            /\ last' = [Called("load_model", id) EXCEPT
                          !.status = r.status, !.pipe = r.pipe, !.meta = r.meta,
                          !.fault = fault]
            /\ UNCHANGED <<issued, deleted, procs, written, registry, held, answered>>

ListModels ==
    /\ last = NoCall
    /\ \E r \in {ListModelsRun(Store)} :
        /\ indexFile' = r.file
        /\ artifacts' = r.arts
        /\ last' = [Called("list_models", NoId) EXCEPT !.status = r.status,
                      !.listed = r.listed]
        /\ UNCHANGED <<issued, deleted, procs, written, registry, held, answered>>

TrainModel(R, F, T) ==
    /\ last = NoCall
    /\    \E req \in TrainReqs(R), fault \in F \cap SaveFaults, track \in T :
      /\ req.model_id \in CallerIds \cup {NoId}
      \* the tracker is reached only after a save in which nothing failed
      /\ fault # "none" => track = "ok"
      /\ \E u \in NewUuids(req.model_id) :
        \E r \in {TrainModelRun(Store, req, u, Now, fault, track)} :
            /\ indexFile' = r.file
            /\ artifacts' = r.arts
            /\ issued' = IF req.model_id = NoId /\ r.target # NoId
                          THEN issued \cup {u} ELSE issued
            /\ deleted' = deleted \ {r.target}
            /\ last' = [Called("train_model", req.model_id) EXCEPT
                          !.status = r.status, !.mid = r.mid, !.stage = r.stage,
                          !.req = req, !.pipe = r.pipe, !.metrics = r.metrics,
                          !.fault = fault, !.track = track,
                          !.registered = r.registered]
            /\ UNCHANGED <<procs, written, registry, held, answered>>

\* the caller takes the result; its next call starts afresh
Return ==
    /\ last # NoCall
    /\ last' = NoCall
    /\ UNCHANGED <<indexFile, artifacts, issued, deleted, procs, written, registry, held, answered>>

\* no system call fails; the tracker is present or not installed
SeqNext ==
    \/ SaveModel({"none"})
    \/ DeleteModel({"none"})
    \/ LoadModel({"none"})
    \/ ListModels
    \/ TrainModel(TrainInputs, {"none"}, {"ok", "no_sdk"})
    \/ Return

SeqSpec == Init /\ [][SeqNext]_vars

(***************************************************************************)
(* Sequential clients of a store that earlier failures or races left       *)
(* inconsistent: any set of index entries beside any set of artifact       *)
(* files, whole or half written.                                           *)
(***************************************************************************)
PartialInit ==
    \E E \in SUBSET ModelIds, A \in SUBSET ModelIds, B \in SUBSET ModelIds :
        /\ B \subseteq A
        /\ indexFile = JsonFile([id \in E |-> Payload([model_key |-> "random_forest"], id, Now)])
        /\ artifacts = [id \in A |-> [ok |-> id \notin B, pipe |-> OpaquePipe("v0")]]
        /\ issued = Uuids \cap (E \cup A)
        /\ last = NoCall
        /\ deleted = {}
        /\ procs = [p \in Procs |-> IdleProc]
    /\ written = NoWrite
    /\ registry = RegistryDefaults
    /\ held = <<>>
    /\ answered = NoAnswer

\* the store's own handlers, no system call failing
PartialNext ==
    \/ SaveModel({"none"})
    \/ DeleteModel({"none"})
    \/ LoadModel({"none"})
    \/ ListModels
    \/ Return

PartialSpec == PartialInit /\ [][PartialNext]_vars

(***************************************************************************)
(* Sequential clients while system calls of the store may fail and the     *)
(* tracker may fail.                                                       *)
(***************************************************************************)
AllFaults == SaveFaults \cup DeleteFaults \cup LoadFaults

FaultNext ==
    \/ DeleteModel(AllFaults)
    \/ LoadModel(AllFaults)
    \/ TrainModel(FewTrainInputs, AllFaults, TrackOutcomes)
    \/ Return

FaultSpec == Init /\ [][FaultNext]_vars

(***************************************************************************)
(* Sequential clients that train, delete and predict.                      *)
(***************************************************************************)
Predict(F) ==
    /\ last = NoCall
    /\    \E id \in CallerIds, instances \in InstanceInputs, fault \in F \cap LoadFaults,
             predicted \in PredictOutcomes, proba \in ProbaOutcomes :
        \* the probabilities are computed only after pipe.predict has returned
        /\ predicted # "ok" => proba = "ok"
        /\ \E r \in {PredictRun(Store, id, instances, fault, predicted, proba)} :
            /\ indexFile' = r.file
            /\ artifacts' = r.arts
            /\ last' = [Called("predict", id) EXCEPT
                          !.status = r.status, !.instances = instances,
                          !.table = r.table, !.preds = r.preds, !.probs = r.probs,
                          !.read = r.read, !.pipe = r.pipe, !.fault = fault,
                          !.predicted = predicted, !.proba = proba]
            /\ UNCHANGED <<issued, deleted, procs, written, registry, held, answered>>

PredictNext ==
    \/ TrainModel(FewTrainInputs, {"none"}, {"ok"})
    \/ DeleteModel({"none"})
    \/ Predict({"none", "load"})
    \/ Return

PredictSpec == Init /\ [][PredictNext]_vars

(***************************************************************************)
(* Clients that predict again: Remember keeps the answer of a predict call *)
(* that returned, with the index entry and the artifact it was computed    *)
(* from, for comparison with the answers of later calls.                   *)
(***************************************************************************)
Remember ==
    /\ last.op = "predict"
    /\ last.status = "ok"
    /\ answered' = [id |-> last.id, instances |-> last.instances, preds |-> last.preds,
                    entry |-> ParseIndex(indexFile)[last.id],
                    artifact |-> artifacts[last.id]]
    /\ last' = NoCall
    /\ UNCHANGED <<indexFile, artifacts, issued, deleted, procs, written, registry, held>>

RepeatNext ==
    \/ TrainModel(FewTrainInputs, {"none"}, {"ok"})
    \/ DeleteModel({"none"})
    \/ Predict({"none", "load"})
    \/ Remember
    \/ Return

RepeatSpec == Init /\ [][RepeatNext]_vars

(***************************************************************************)
(* The registry as an object callers use: build, defaults and get, and     *)
(* callers that write into the mappings defaults() gave them.  A held      *)
(* mapping is [of, shared, d]: the key it was asked for, whether it is the *)
(* very dict object of the ModelSpec, and its contents.                    *)
(***************************************************************************)
\* ModelSpec.build leaves self.defaults alone: merged is a new dict
DefaultsAfterBuild(defaults, params) == defaults

DefaultsMappingShared(reg, key) == [of |-> key, shared |-> TRUE, d |-> reg[key]]

\* ModelRegistry.defaults: dict(self.get(key).defaults), a new dict object
DefaultsMapping(reg, key) == [of |-> key, shared |-> FALSE, d |-> reg[key]]

\* registry.build(key, params) on the registry as it is now
RegistryBuild(reg, key, params) ==
    IF key \notin DOMAIN reg
    THEN [status |-> "KeyError", est |-> NoPipe.model]
    ELSE [status |-> "ok", est |-> SpecBuild(RegistryCls[key], reg[key], params)]

\* the model keys and hyperparameter dicts callers pass
KeyInputs == {"logistic_regression", "random_forest", "bogus"}

BuildParams ==
    {EmptyDict, [C |-> 2], [C |-> 2, bogus_param |-> 1],
     [max_iter |-> 50, n_estimators |-> 10]}

\* what a caller writes into a mapping it holds
HeldWrites == {<<"C", 9>>, <<"n_estimators", 9>>, <<"extra", 9>>}

Build ==
    /\ last = NoCall
    /\ \E key \in KeyInputs, params \in BuildParams :
        \E r \in {RegistryBuild(registry, key, params)} :
            /\ last' = [Called("build", NoId) EXCEPT
                          !.status = r.status, !.key = key, !.params = params,
                          !.est = r.est]
            /\ registry' = IF r.status = "ok"
                           THEN [registry EXCEPT
                                   ![key] = DefaultsAfterBuild(registry[key], params)]
                           ELSE registry
    /\ UNCHANGED <<indexFile, artifacts, issued, deleted, procs, written, held, answered>>

\* get_default_hyperparams(model_key)
Defaults ==
    /\ last = NoCall
    /\ \E key \in KeyInputs :
        IF key \notin DOMAIN registry
        THEN /\ last' = [Called("defaults", NoId) EXCEPT !.status = "KeyError", !.key = key]
             /\ held' = held
        ELSE /\ Len(held) < MaxHeld
             /\ last' = [Called("defaults", NoId) EXCEPT
                           !.status = "ok", !.key = key, !.params = registry[key]]
             /\ held' = Append(held, DefaultsMapping(registry, key))
    /\ UNCHANGED <<indexFile, artifacts, issued, deleted, procs, written, registry, answered>>

\* registry.get(key): the ModelSpec itself, or KeyError
RegistryGet ==
    /\ last = NoCall
    /\ \E key \in KeyInputs :
        last' = [Called("get", NoId) EXCEPT
                   !.status = IF key \in DOMAIN registry THEN "ok" ELSE "KeyError",
                   !.key = key,
                   !.params = IF key \in DOMAIN registry THEN registry[key] ELSE EmptyDict]
    /\ UNCHANGED <<indexFile, artifacts, issued, deleted, procs, written, registry, held, answered>>

\* a caller assigns mapping[k] = v in a mapping it holds; a write into a dict
\* object the registry shares is a write into the registry
WriteHeld ==
    /\ last = NoCall
    /\ \E i \in 1..Len(held), w \in HeldWrites :
        /\ held' = [held EXCEPT ![i].d = DictPut(held[i].d, w[1], w[2])]
        /\ registry' = IF held[i].shared
                       THEN [registry EXCEPT
                               ![held[i].of] = DictPut(registry[held[i].of], w[1], w[2])]
                       ELSE registry
    /\ UNCHANGED <<indexFile, artifacts, issued, last, deleted, procs, written, answered>>

RegistryNext ==
    \/ Build
    \/ Defaults
    \/ RegistryGet
    \/ WriteHeld
    \/ Return

RegistrySpec == Init /\ [][RegistryNext]_vars

(***************************************************************************)
(* The transports (api/main.py, grpc_svc/server.py): each endpoint calls   *)
(* the core and answers with a protocol status; an exception no except     *)
(* clause of the endpoint matches leaves the handler, which the framework  *)
(* answers with 500 (FastAPI) or UNKNOWN (grpc.aio).                       *)
(***************************************************************************)
\* the base class of each exception class the core can raise
Bases ==
    [DatasetNotFoundError |-> "FileNotFoundError", FileNotFoundError |-> "OSError",
     OSError |-> "Exception", DatasetReadError |-> "ValueError",
     TargetColumnNotFoundError |-> "ValueError", NoInstancesError |-> "ValueError",
     JSONDecodeError |-> "ValueError", ValueError |-> "Exception",
     ModelNotFoundError |-> "KeyError", KeyError |-> "LookupError",
     LookupError |-> "Exception", UnpicklingError |-> "Exception"]

\* isinstance(exc, cls)
RECURSIVE IsInstance(_, _)
IsInstance(exc, cls) ==
    \/ exc = cls
    \/ exc \in DOMAIN Bases /\ IsInstance(Bases[exc], cls)

\* the except clauses of each endpoint, in source order: <<class, status>>
RestTrainExcepts ==
    << <<"DatasetNotFoundError", "404">>, <<"DatasetReadError", "400">>,
       <<"TargetColumnNotFoundError", "400">>, <<"ValueError", "400">> >>

RestPredictExcepts ==
    << <<"KeyError", "404">>, <<"NoInstancesError", "400">>, <<"ValueError", "400">> >>

GrpcTrainExcepts ==
    << <<"FileNotFoundError", "NOT_FOUND">>, <<"ValueError", "INVALID_ARGUMENT">> >>

GrpcPredictExcepts ==
    << <<"KeyError", "NOT_FOUND">>, <<"ValueError", "INVALID_ARGUMENT">> >>

Excepts ==
    [rest |-> [train |-> RestTrainExcepts, predict |-> RestPredictExcepts],
     grpc |-> [train |-> GrpcTrainExcepts, predict |-> GrpcPredictExcepts]]

\* the status of a call that returned, of a missing resource, of an exception
\* that left the handler
StatusOk == [rest |-> "200", grpc |-> "OK"]
StatusNotFound == [rest |-> "404", grpc |-> "NOT_FOUND"]
StatusInvalid == [rest |-> "400", grpc |-> "INVALID_ARGUMENT"]
StatusEscaped == [rest |-> "500", grpc |-> "UNKNOWN"]

\* try: ... except A: ... except B: ...  -- the first clause exc is an instance of
RECURSIVE Translate(_, _, _)
Translate(excepts, exc, escaped) ==
    IF excepts = <<>> THEN escaped
    ELSE IF IsInstance(exc, Head(excepts)[1]) THEN Head(excepts)[2]
    ELSE Translate(Tail(excepts), exc, escaped)

\* what the endpoint answers when the core call ended with status
Answer(transport, op, status) ==
    IF status = "ok" THEN StatusOk[transport]
    ELSE Translate(Excepts[transport][op], status, StatusEscaped[transport])

\* POST /train and MLService.Train
TrainEndpoint(transport) ==
    /\ last = NoCall
    /\    \E req \in TrainReqs(FewTrainInputs) :
      /\ req.model_id \in CallerIds \cup {NoId}
      /\ \E u \in NewUuids(req.model_id) :
        \E r \in {TrainModelRun(Store, req, u, Now, "none", "ok")} :
            /\ indexFile' = r.file
            /\ artifacts' = r.arts
            /\ issued' = IF req.model_id = NoId /\ r.target # NoId
                          THEN issued \cup {u} ELSE issued
            /\ deleted' = deleted \ {r.target}
            /\ last' = [Called("train", req.model_id) EXCEPT
                          !.status = r.status, !.mid = r.mid, !.stage = r.stage,
                          !.req = req, !.transport = transport,
                          !.protocol = Answer(transport, "train", r.status)]
            /\ UNCHANGED <<procs, written, registry, held, answered>>

\* POST /predict and MLService.Predict
PredictEndpoint(transport) ==
    /\ last = NoCall
    /\    \E id \in CallerIds, instances \in InstanceInputs, predicted \in PredictOutcomes :
        \E r \in {PredictRun(Store, id, instances, "none", predicted, "ok")} :
            /\ indexFile' = r.file
            /\ artifacts' = r.arts
            /\ last' = [Called("predict", id) EXCEPT
                          !.status = r.status, !.instances = instances,
                          !.predicted = predicted, !.transport = transport,
                          !.protocol = Answer(transport, "predict", r.status)]
            /\ UNCHANGED <<issued, deleted, procs, written, registry, held, answered>>

\* DELETE /models/{model_id} and MLService.DeleteModel: store_delete_model is
\* called bare, and False is answered as not found
DeleteEndpoint(transport) ==
    /\ last = NoCall
    /\    \E id \in CallerIds :
        \E r \in {DeleteModelRun(Store, id, "none")} :
            /\ indexFile' = r.file
            /\ artifacts' = r.arts
            /\ deleted' = IF r.status = "ok" THEN deleted \cup {id} ELSE deleted
            /\ last' = [Called("delete", id) EXCEPT
                          !.status = IF r.status = "ok" /\ ~r.existed
                                     THEN "ModelNotFoundError" ELSE r.status,
                          !.existed = r.existed, !.transport = transport,
                          !.protocol = IF r.status # "ok" THEN StatusEscaped[transport]
                                       ELSE IF r.existed THEN StatusOk[transport]
                                       ELSE StatusNotFound[transport]]
            /\ UNCHANGED <<issued, procs, written, registry, held, answered>>

TransportNext ==
    \/ \E t \in {"rest", "grpc"} : TrainEndpoint(t)
    \/ \E t \in {"rest", "grpc"} : PredictEndpoint(t)
    \/ \E t \in {"rest", "grpc"} : DeleteEndpoint(t)
    \/ Return

TransportSpec == Init /\ [][TransportNext]_vars

(***************************************************************************)
(* Concurrent request threads (the thread pool FastAPI runs the `def`      *)
(* endpoints of api/main.py on): each runs one store handler at a time,    *)
(* one system call per step; no lock is taken anywhere in model_store.py.  *)
(***************************************************************************)
\* what a concurrent save_model is handed
ThreadRun == CHOOSE run \in StoreRuns : "model_id" \notin DOMAIN run.meta

Goto(p, pc) == [procs EXCEPT ![p].pc = pc]

\* a thread enters one of the handlers Ops: two _ensure() calls lie ahead of
\* it, the handler's own and the one inside _read_index
CallOf(p, Ops) ==
    /\ procs[p].pc = "idle"
    /\ \E op \in Ops, id \in CallerIds \cup {NoId} :
        /\ id = NoId => op = "save_model"
        /\ procs' = [procs EXCEPT ![p] =
                        [IdleProc EXCEPT !.pc = "ensure", !.op = op, !.id = id,
                                         !.ensures = 2]]
    /\ UNCHANGED <<indexFile, artifacts, issued, last, deleted, written, registry, held, answered>>

\* a thread enters save_model, delete_model or load_model
Call(p) == CallOf(p, {"save_model", "delete_model", "load_model"})

\* where a thread goes once one _ensure() call is over
AfterEnsure(pr) ==
    [pr EXCEPT !.ensures = pr.ensures - 1,
               !.pc = IF pr.ensures > 1 THEN "ensure" ELSE "read"]

\* _ensure: `if not INDEX_PATH.exists()`
EnsureExists(p) ==
    /\ procs[p].pc = "ensure"
    /\ procs' = IF indexFile.st = "absent"
                THEN Goto(p, "ensure_open")
                ELSE [procs EXCEPT ![p] = AfterEnsure(procs[p])]
    /\ UNCHANGED <<indexFile, artifacts, issued, last, deleted, written, registry, held, answered>>

\* _ensure: write_text opens INDEX_PATH for writing, which truncates it
EnsureOpen(p) ==
    /\ procs[p].pc = "ensure_open"
    /\ indexFile' = OpenTrunc(indexFile)
    /\ procs' = Goto(p, "ensure_write")
    /\ UNCHANGED <<artifacts, issued, last, deleted, written, registry, held, answered>>

\* _ensure: write_text writes "{}" and closes
EnsureWrite(p) ==
    /\ procs[p].pc = "ensure_write"
    /\ indexFile' = WriteAtZero(indexFile, EmptyDict)
    /\ written' = [by |-> p, ix |-> EmptyDict]
    /\ procs' = [procs EXCEPT ![p] = AfterEnsure(procs[p])]
    /\ UNCHANGED <<artifacts, issued, last, deleted, registry, held, answered>>

\* what a handler does with the index it has read, up to its next system call
AfterRead(pr, index) ==
    CASE pr.op = "save_model" -> [pr EXCEPT !.index = index, !.pc = "dump_open"]
      [] pr.op = "delete_model" ->
            IF pr.id \in DOMAIN index
            THEN [pr EXCEPT !.index = DictPop(index, pr.id), !.existed = TRUE,
                            !.pc = "write_open"]
            ELSE [pr EXCEPT !.index = index, !.pc = "exists"]
      [] OTHER ->
            IF pr.id \notin DOMAIN index
            THEN [pr EXCEPT !.index = index, !.status = "ModelNotFoundError",
                            !.pc = "done"]
            ELSE [pr EXCEPT !.index = index, !.meta = index[pr.id], !.pc = "load"]

\* _read_index: json.loads(INDEX_PATH.read_text() or "{}")
ReadIndex(p) ==
    /\ procs[p].pc = "read"
    /\ procs' = [procs EXCEPT ![p] =
                    IF Readable(indexFile)
                    THEN AfterRead(procs[p], ParseIndex(indexFile))
                    ELSE [procs[p] EXCEPT !.status = "JSONDecodeError", !.pc = "done"]]
    /\ UNCHANGED <<indexFile, artifacts, issued, last, deleted, written, registry, held, answered>>

\* save_model: mid = model_id or uuid4().hex; dump opens the artifact file for
\* writing, which creates or truncates it
DumpOpen(p) ==
    /\ procs[p].pc = "dump_open"
    /\ \E u \in NewUuids(procs[p].id) :
        LET mid == ChooseId(procs[p].id, u)
        IN  /\ artifacts' = Dump(artifacts, mid, ThreadRun.pipe, "dump_partial")
            /\ issued' = IF procs[p].id = NoId THEN issued \cup {u} ELSE issued
            /\ procs' = [procs EXCEPT ![p].mid = mid, ![p].pc = "dump_write"]
    /\ UNCHANGED <<indexFile, last, deleted, written, registry, held, answered>>

\* save_model: dump writes the pickle and closes; a file unlinked since the open
\* stays unlinked.  Then index[mid] = payload, in the thread's own copy
DumpWrite(p) ==
    /\ procs[p].pc = "dump_write"
    /\ artifacts' = IF procs[p].mid \in DOMAIN artifacts
                    THEN Dump(artifacts, procs[p].mid, ThreadRun.pipe, "none")
                    ELSE artifacts
    /\ procs' = [procs EXCEPT
                    ![p].index = DictPut(procs[p].index, procs[p].mid,
                                         Payload(ThreadRun.meta, procs[p].mid, Now)),
                    ![p].pc = "write_open"]
    /\ UNCHANGED <<indexFile, issued, last, deleted, written, registry, held, answered>>

\* _write_index: write_text opens INDEX_PATH for writing, which truncates it
WriteOpen(p) ==
    /\ procs[p].pc = "write_open"
    /\ indexFile' = OpenTrunc(indexFile)
    /\ procs' = Goto(p, "write_write")
    /\ UNCHANGED <<artifacts, issued, last, deleted, written, registry, held, answered>>

\* _write_index: write_text writes the thread's whole index and closes;
\* save_model then returns mid, delete_model goes on to the artifact
WriteWrite(p) ==
    /\ procs[p].pc = "write_write"
    /\ indexFile' = WriteAtZero(indexFile, procs[p].index)
    /\ written' = [by |-> p, ix |-> procs[p].index]
    /\ procs' = IF procs[p].op = "save_model"
                THEN [procs EXCEPT ![p].status = "ok", ![p].pc = "done"]
                ELSE Goto(p, "exists")
    /\ UNCHANGED <<artifacts, issued, last, deleted, registry, held, answered>>

\* delete_model: `if p.exists()`
PathExists(p) ==
    /\ procs[p].pc = "exists"
    /\ procs' = IF procs[p].id \in DOMAIN artifacts
                THEN [procs EXCEPT ![p].existed = TRUE, ![p].pc = "unlink"]
                ELSE [procs EXCEPT ![p].status = "ok", ![p].pc = "done"]
    /\ UNCHANGED <<indexFile, artifacts, issued, last, deleted, written, registry, held, answered>>

\* delete_model: p.unlink(), which raises when the file has gone meanwhile
UnlinkFile(p) ==
    /\ procs[p].pc = "unlink"
    /\ artifacts' = Unlink(artifacts, procs[p].id)
    /\ procs' = [procs EXCEPT
                    ![p].status = IF procs[p].id \in DOMAIN artifacts
                                  THEN "ok" ELSE "FileNotFoundError",
                    ![p].pc = "done"]
    /\ UNCHANGED <<indexFile, issued, last, deleted, written, registry, held, answered>>

LoadArtifactLenient(arts, model_id) ==
    IF model_id \in DOMAIN arts
    THEN [status |-> "ok", pipe |-> arts[model_id].pipe]
    ELSE [status |-> "ok", pipe |-> NoPipe]

\* load(model_path(model_id)): open the file, unpickle what it holds
LoadArtifact(arts, model_id) ==
    IF model_id \notin DOMAIN arts THEN [status |-> "FileNotFoundError", pipe |-> NoPipe]
    ELSE IF ~arts[model_id].ok THEN [status |-> "UnpicklingError", pipe |-> NoPipe]
    ELSE [status |-> "ok", pipe |-> arts[model_id].pipe]

\* load_model: pipe = load(model_path(model_id)); return pipe, meta
LoadFile(p) ==
    /\ procs[p].pc = "load"
    /\ \E r \in {LoadArtifact(artifacts, procs[p].id)} :
        procs' = [procs EXCEPT ![p].status = r.status, ![p].pipe = r.pipe,
                               ![p].pc = "done"]
    /\ UNCHANGED <<indexFile, artifacts, issued, last, deleted, written, registry, held, answered>>

\* the handler has returned or raised; the thread is free for the next request
Finish(p) ==
    /\ procs[p].pc = "done"
    /\ procs' = [procs EXCEPT ![p] = IdleProc]
    /\ UNCHANGED <<indexFile, artifacts, issued, last, deleted, written, registry, held, answered>>

Next ==
    \/ \E p \in Procs : Call(p)
    \/ \E p \in Procs : EnsureExists(p)
    \/ \E p \in Procs : EnsureOpen(p)
    \/ \E p \in Procs : EnsureWrite(p)
    \/ \E p \in Procs : ReadIndex(p)
    \/ \E p \in Procs : DumpOpen(p)
    \/ \E p \in Procs : DumpWrite(p)
    \/ \E p \in Procs : WriteOpen(p)
    \/ \E p \in Procs : WriteWrite(p)
    \/ \E p \in Procs : PathExists(p)
    \/ \E p \in Procs : UnlinkFile(p)
    \/ \E p \in Procs : LoadFile(p)
    \/ \E p \in Procs : Finish(p)

Spec == Init /\ [][Next]_vars

(***************************************************************************)
(* A delete racing a load: the store holds some models, whole; each thread *)
(* makes one delete_model or load_model call.                              *)
(***************************************************************************)
\* what an earlier save_model of model_id left in the artifact and the index
StoredPipe(model_id) == OpaquePipe(ToString(model_id))
StoredRecord(model_id) ==
    Payload([model_key |-> "random_forest", features |-> <<"x">>], model_id, Now)

RaceInit ==
    \E E \in SUBSET ModelIds :
        /\ indexFile = JsonFile([id \in E |-> StoredRecord(id)])
        /\ artifacts = [id \in E |-> [ok |-> TRUE, pipe |-> StoredPipe(id)]]
        /\ issued = Uuids \cap E
        /\ last = NoCall
        /\ deleted = {}
        /\ procs = [p \in Procs |-> IdleProc]
        /\ written = NoWrite
        /\ registry = RegistryDefaults
        /\ held = <<>>
        /\ answered = NoAnswer

\* the index file exists from the start, so _ensure never creates it
RaceNext ==
    \/ \E p \in Procs : CallOf(p, {"delete_model", "load_model"})
    \/ \E p \in Procs : EnsureExists(p)
    \/ \E p \in Procs : ReadIndex(p)
    \/ \E p \in Procs : WriteOpen(p)
    \/ \E p \in Procs : WriteWrite(p)
    \/ \E p \in Procs : PathExists(p)
    \/ \E p \in Procs : UnlinkFile(p)
    \/ \E p \in Procs : LoadFile(p)

RaceSpec == RaceInit /\ [][RaceNext]_vars

(***************************************************************************)
(* A retraining save racing a load: the store holds some models, whole;    *)
(* each thread makes one save_model or load_model call, the save with the  *)
(* model_id of a stored model or with none.                                *)
(***************************************************************************)
RetrainNext ==
    \/ \E p \in Procs : CallOf(p, {"save_model", "load_model"})
    \/ \E p \in Procs : EnsureExists(p)
    \/ \E p \in Procs : ReadIndex(p)
    \/ \E p \in Procs : DumpOpen(p)
    \/ \E p \in Procs : DumpWrite(p)
    \/ \E p \in Procs : WriteOpen(p)
    \/ \E p \in Procs : WriteWrite(p)
    \/ \E p \in Procs : LoadFile(p)

RetrainSpec == RaceInit /\ [][RetrainNext]_vars

(***************************************************************************)
(* Properties of the sequential store (SeqSpec).                           *)
(***************************************************************************)
\* C1: after any sequence of completed, non-interleaved calls none of which
\* failed in the store, the artifact file of a model_id exists if and only if
\* the index holds an entry for it.
C1_ArtifactIffEntry ==
    \A id \in ModelIds : (id \in DOMAIN artifacts) <=> (id \in Entries(indexFile))

\* a delete that removed one model while another is still stored
C1_Witness ==
    /\ last.op = "delete_model"
    /\ last.existed
    /\ \E id \in ModelIds : id \in DOMAIN artifacts /\ id \in Entries(indexFile)

\* C3: once delete_model(id) has completed and no save for id has happened
\* since, load_model(id) fails with ModelNotFoundError and delete_model(id)
\* returns False.
C3_DeletedStaysDeleted ==
    /\ (last.op = "load_model" /\ last.wasDeleted)
          => last.status = "ModelNotFoundError"
    /\ (last.op = "delete_model" /\ last.wasDeleted)
          => (last.status = "ok" /\ ~last.existed)

\* a load of an id that was stored, then deleted
C3_Witness ==
    /\ last.op = "load_model"
    /\ last.wasDeleted
    /\ last.id \in issued \cup NamedIds
    /\ last.status = "ModelNotFoundError"

\* C4: every index record is stored under its own model_id and names its own
\* artifact path, also when the caller's meta carries model_id, path or
\* created_at itself (a dict holds one record per key).
C4_RecordMatchesKey ==
    \A id \in Entries(indexFile) :
        /\ indexFile.ix[id].model_id = id
        /\ indexFile.ix[id].path = model_path(id)

\* a record saved from a meta that carried its own model_id and path
C4_Witness ==
    /\ last.op = "save_model"
    /\ last.status = "ok"
    /\ {"model_id", "path", "created_at"} \subseteq DOMAIN last.meta
    /\ last.meta.model_id # last.mid
    /\ last.mid \in Entries(indexFile)

\* the number of columns of the request's dataset other than the target
NonTargetColumns(req) ==
    LET cols == DatasetFiles[req.dataset_id].columns
    IN  Cardinality({i \in 1..Len(cols) : cols[i] # req.target_column})

\* the records list_models() returns for model_id
RecordsFor(listed, model_id) ==
    {i \in 1..Len(listed) : listed[i].model_id = model_id}

\* C5: a train_model call given a model_id the index already holds leaves one
\* entry for that id, with the new run's metadata, and one artifact for it, the
\* newly fitted pipeline; no entry or artifact appears under another id.
C5_RetrainInPlace ==
    [][(/\ last'.op = "train_model"
        /\ last'.status = "ok"
        /\ last'.id \in Entries(indexFile))
       => LET id == last'.id
              req == last'.req
              rec == ParseIndex(indexFile')[id]
          IN  /\ last'.mid = id
              /\ Entries(indexFile') = Entries(indexFile)
              /\ DOMAIN artifacts' = DOMAIN artifacts \cup {id}
              /\ rec.dataset_id = req.dataset_id
              /\ rec.target_column = req.target_column
              /\ rec.model_key = req.model_key
              /\ rec.hyperparams = req.hyperparams
              /\ rec.metrics = last'.metrics
              /\ Len(rec.features) = NonTargetColumns(req)
              /\ artifacts'[id].ok
              /\ artifacts'[id].pipe.data
                    = <<req.dataset_id, req.target_column, req.test_size>>
              /\ \A other \in ModelIds \ {id} :
                    /\ other \in Entries(indexFile)
                         => ParseIndex(indexFile')[other] = ParseIndex(indexFile)[other]
                    /\ other \in DOMAIN artifacts
                         => artifacts'[other] = artifacts[other]]_vars

\* a retraining of a stored model on another dataset
C5_Witness ==
    /\ last.op = "train_model"
    /\ last.status = "ok"
    /\ last.hadEntry
    /\ last.req.dataset_id = "d2"
    /\ Cardinality(Entries(indexFile)) > 1

\* C6 as stated: every successful train_model returns a model_id that
\* list_models() did not hold before the call, and afterwards list_models()
\* holds exactly one record for it, whose feature order has length M.
C6_AsStated ==
    [][(last'.op = "train_model" /\ last'.status = "ok")
       => LET after == ListModelsRun([file |-> indexFile', arts |-> artifacts']).listed
              mine == RecordsFor(after, last'.mid)
          IN  /\ last'.mid \notin Entries(indexFile)
              /\ Cardinality(mine) = 1
              /\ \A i \in mine : Len(after[i].features) = NonTargetColumns(last'.req)]_vars

\* C6, amended: the returned id is new when the call was not given the
\* model_id of an existing entry; in every successful call list_models() then
\* holds exactly one record for the returned id, with a feature order of
\* length M.
C6_FreshUnlessRetrain ==
    [][(last'.op = "train_model" /\ last'.status = "ok")
       => LET after == ListModelsRun([file |-> indexFile', arts |-> artifacts']).listed
              mine == RecordsFor(after, last'.mid)
          IN  /\ last'.id \notin Entries(indexFile)
                    => last'.mid \notin Entries(indexFile)
              /\ last'.id \in Entries(indexFile) => last'.mid = last'.id
              /\ Cardinality(mine) = 1
              /\ \A i \in mine : Len(after[i].features) = NonTargetColumns(last'.req)]_vars

\* a training call without model_id, made while another model is stored
C6_Witness ==
    /\ last.op = "train_model"
    /\ last.status = "ok"
    /\ last.id = NoId
    /\ last.stored > 0
    /\ Cardinality(Entries(indexFile)) = last.stored + 1

StoreErrors == {"OSError", "JSONDecodeError"}

\* the request cannot reach the store save: its dataset, target column,
\* model key, split or fit is bad
FailsBeforeSave(req) ==
    \/ req.dataset_id \notin DOMAIN DatasetFiles
    \/ ~DatasetFiles[req.dataset_id].readable
    \/ ~InSeq(req.target_column, DatasetFiles[req.dataset_id].columns)
    \/ req.model_key \notin DOMAIN RegistryDefaults
    \/ ~(0 < req.test_size /\ req.test_size < 100)
    \/ NonTargetColumns(req) = 0

\* C7: a train_model call that reached the store save either returns with the
\* artifact and the index entry of the returned id both committed, or fails
\* with the store's error; it never returns while one of the two is missing.
C7_SaveCommitsOrFails ==
    (last.op = "train_model" /\ ~FailsBeforeSave(last.req))
    => \/ /\ last.status = "ok"
          /\ last.mid # NoId
          /\ last.mid \in Entries(indexFile)
          /\ last.mid \in DOMAIN artifacts
          /\ artifacts[last.mid] = [ok |-> TRUE, pipe |-> last.pipe]
          /\ indexFile.ix[last.mid].dataset_id = last.req.dataset_id
       \/ /\ last.status \in StoreErrors
          /\ last.mid = NoId

\* a training call whose index write failed after the artifact was dumped
C7_Witness ==
    /\ last.op = "train_model"
    /\ last.fault = "write_open"
    /\ last.status = "OSError"
    /\ \E id \in DOMAIN artifacts : id \notin Entries(indexFile)

\* C8: a train_model call that fails before the store save (dataset missing or
\* unreadable, target column missing, unknown model key, split or fit error)
\* leaves the index file and the artifact files as they were.
C8_NoStateBeforeSave ==
    [][(last'.op = "train_model" /\ FailsBeforeSave(last'.req))
       => /\ last'.status \in {"DatasetNotFoundError", "DatasetReadError",
                                "TargetColumnNotFoundError", "KeyError", "ValueError"}
          /\ indexFile' = indexFile
          /\ artifacts' = artifacts]_vars

\* a call with an unknown model key, made to a store that is still empty
C8_Witness ==
    /\ last.op = "train_model"
    /\ last.status = "KeyError"
    /\ indexFile.st = "absent"

\* C9: whatever fails in the tracking step after the save, train_model returns
\* (model_id, metrics) and the saved artifact and index entry stay as saved.
C9_TrackingSwallowed ==
    (last.op = "train_model" /\ last.stage = "tracking")
    => /\ last.status = "ok"
       /\ last.mid # NoId
       /\ "accuracy" \in DOMAIN last.metrics
       /\ last.mid \in Entries(indexFile)
       /\ indexFile.ix[last.mid].metrics = last.metrics
       /\ indexFile.ix[last.mid].dataset_id = last.req.dataset_id
       /\ last.mid \in DOMAIN artifacts
       /\ artifacts[last.mid] = [ok |-> TRUE, pipe |-> last.pipe]

\* a training call whose re-load of the saved record raised
C9_Witness ==
    /\ last.op = "train_model"
    /\ last.track = "reload_raises"
    /\ last.stage = "tracking"
    /\ last.status = "ok"

(***************************************************************************)
(* Properties of the store under concurrent threads (Spec).                *)
(***************************************************************************)
\* no handler is between its first and its last system call
Quiescent == \A p \in Procs : procs[p].pc \in {"idle", "done"}

\* C10: when save_model and delete_model calls interleave, the index left
\* behind once they are all over is exactly the index the last of the writers
\* wrote.
C10_LastWriterWins ==
    (Quiescent /\ written # NoWrite) => indexFile = JsonFile(written.ix)

\* C10, the lost update: two concurrent saves of distinct ids have both
\* returned, both artifacts are on disk, the index holds one of the two
C10_LostUpdate ==
    /\ \A p \in Procs : procs[p].pc = "done" /\ procs[p].op = "save_model"
                          /\ procs[p].status = "ok"
    /\ \A p, q \in Procs : p # q => procs[p].mid # procs[q].mid
    /\ \A p \in Procs : procs[p].mid \in DOMAIN artifacts /\ artifacts[procs[p].mid].ok
    /\ indexFile.st = "json"
    /\ Cardinality(Entries(indexFile)) = 1

(***************************************************************************)
(* Properties of a load racing a delete (RaceSpec).                        *)
(***************************************************************************)
\* C11: however a delete_model(id) interleaves with a load_model(id), the
\* load returns the pipeline and the record stored for id, or fails with
\* ModelNotFoundError, or fails reading the artifact; it returns nothing built
\* from a missing or partial file.
C11_LoadRacingDelete ==
    \A p \in Procs :
        (procs[p].op = "load_model" /\ procs[p].pc = "done")
        => \/ /\ procs[p].status = "ok"
              /\ procs[p].pipe = StoredPipe(procs[p].id)
              /\ procs[p].meta = StoredRecord(procs[p].id)
           \/ procs[p].status = "ModelNotFoundError"
           \/ procs[p].status \in {"FileNotFoundError", "UnpicklingError"}

\* a load that found the entry of id in the index and then found the artifact
\* gone, unlinked by the delete of id that has meanwhile returned
C11_Witness ==
    \E p, q \in Procs :
        /\ procs[p].op = "load_model" /\ procs[p].pc = "done"
        /\ procs[p].status = "FileNotFoundError"
        /\ procs[p].meta = StoredRecord(procs[p].id)
        /\ procs[q].op = "delete_model" /\ procs[q].id = procs[p].id
        /\ procs[q].pc = "done" /\ procs[q].existed

(***************************************************************************)
(* Properties of the index write under concurrent threads (Spec).          *)
(***************************************************************************)
\* C12: the index write is all or nothing: whenever a handler reads the
\* index, the file holds one whole document, as some writer wrote it; never
\* the empty file of a write that has truncated and not yet written, never
\* text that is not one document.
C12_IndexReadSeesWholeWrite ==
    [][\A p \in Procs :
          (procs[p].pc = "read" /\ procs'[p].pc # "read")
          => indexFile.st = "json"]_vars

\* a load_model of a stored id that read the index while a save_model of
\* another id had truncated it, and so did not find its model
C12_ReadDuringWrite ==
    \E p, q \in Procs :
        /\ procs[p].op = "load_model" /\ procs[p].pc = "done"
        /\ procs[p].status = "ModelNotFoundError"
        /\ procs[p].id \in DOMAIN artifacts
        /\ procs[q].op = "save_model" /\ procs[q].pc = "write_write"
        /\ procs[q].mid # procs[p].id
        /\ procs[p].id \in DOMAIN procs[q].index

(***************************************************************************)
(* Properties of load_model on an inconsistent store (PartialSpec).        *)
(***************************************************************************)
\* C13: load_model(id) fails with ModelNotFoundError exactly when id is not
\* in the index, whether or not an artifact file of id exists; when id is in
\* the index it unpickles the file at model_path(id) and returns the pipeline
\* with the index record, or fails with what reading that file raises.
C13_NotFoundIffNoEntry ==
    last.op = "load_model"
    => /\ (last.status = "ModelNotFoundError") <=> ~last.hadEntry
       /\ last.hadEntry
            => IF last.hadFile /\ artifacts[last.id].ok
               THEN /\ last.status = "ok"
                    /\ last.pipe = artifacts[last.id].pipe
                    /\ last.meta = indexFile.ix[last.id]
               ELSE last.status \in {"FileNotFoundError", "UnpicklingError"}

\* a load of an id that has an artifact file and no index entry
C13_Witness ==
    /\ last.op = "load_model"
    /\ last.hadFile /\ ~last.hadEntry
    /\ last.status = "ModelNotFoundError"

(***************************************************************************)
(* Properties of predict (PredictSpec).                                    *)
(***************************************************************************)
\* C14: predict with an empty instances sequence fails with NoInstancesError
\* for every model_id, stored or not, and does not touch the store: it does
\* not call store_load_model, and index file and artifacts stay as they were.
C14_EmptyInstancesRejectedFirst ==
    [][(last'.op = "predict" /\ last'.instances = <<>>)
       => /\ last'.status = "NoInstancesError"
          /\ ~last'.read
          /\ indexFile' = indexFile
          /\ artifacts' = artifacts]_vars

\* predict with no instances on a store no call has read yet: the index file
\* a load_model would have created is still not there
C14_Witness ==
    /\ last.op = "predict"
    /\ last.instances = <<>>
    /\ last.status = "NoInstancesError"
    /\ indexFile.st = "absent"

\* C15: predict with at least one instance and a model_id the index does not
\* hold (never trained, or deleted) fails with the store's ModelNotFoundError.
C15_UnknownModelNotFound ==
    (last.op = "predict" /\ last.instances # <<>> /\ ~last.hadEntry)
    => last.status = "ModelNotFoundError"

\* predict for a model that was trained and then deleted
C15_Witness ==
    /\ last.op = "predict"
    /\ last.instances # <<>>
    /\ last.wasDeleted
    /\ last.status = "ModelNotFoundError"

\* the predict call got its model from the store
ModelLoaded ==
    /\ last.op = "predict"
    /\ last.instances # <<>>
    /\ last.hadEntry
    /\ last.fault = "none"

\* C16: for a stored model and at least one instance, the table handed to the
\* pipeline has the columns of the recorded feature order, in that order, and
\* one row per instance in input order; a feature an instance lacks is null,
\* a field that is no feature is dropped.
C16_TableFollowsFeatureOrder ==
    ModelLoaded
    => LET feats == indexFile.ix[last.id].features
           X == last.table
       IN  /\ X.columns = feats
           /\ Len(X.rows) = Len(last.instances)
           /\ \A i \in 1..Len(last.instances) :
                /\ DOMAIN X.rows[i] = SeqToSet(feats)
                /\ \A c \in SeqToSet(feats) :
                     X.rows[i][c] = IF HasKey(last.instances[i], c)
                                    THEN Get(last.instances[i], c) ELSE Null

\* a table built from an instance with fields that are no feature, an empty
\* instance and a whole one, for a model with two features
C16_Witness ==
    /\ ModelLoaded
    /\ Len(last.instances) = 3
    /\ Len(last.table.columns) = 2
    /\ last.table.rows[2] = [c \in {"age", "city"} |-> Null]

\* C17: a successful predict returns one prediction per instance, in the
\* order of the instances, also when instances lack trained feature names.
C17_OnePredictionPerInstance ==
    (last.op = "predict" /\ last.status = "ok")
    => LET feats == indexFile.ix[last.id].features
       IN  /\ Len(last.preds) = Len(last.instances)
           /\ \A i \in 1..Len(last.instances) :
                last.preds[i]
                  = Label(last.pipe,
                          [j \in 1..Len(feats) |-> Get(last.instances[i], feats[j])])

\* a successful predict whose first instance lacks a trained feature
C17_Witness ==
    /\ last.op = "predict"
    /\ last.status = "ok"
    /\ Len(last.instances) = 2
    /\ \E c \in SeqToSet(indexFile.ix[last.id].features) : ~HasKey(last.instances[1], c)

\* C18: when the pipeline's predict has succeeded, predict returns the
\* predictions whatever the probability computation does; the probabilities
\* are None when the estimator has no predict_proba or a step of the
\* computation raises.
C18_ProbabilitiesBestEffort ==
    (ModelLoaded /\ last.predicted = "ok")
    => /\ last.status = "ok"
       /\ Len(last.preds) = Len(last.instances)
       /\ last.proba # "ok" => last.probs = "None"
       /\ last.proba = "ok" => Len(last.probs) = Len(last.instances)

\* a predict whose transform for the probabilities raised
C18_Witness ==
    /\ ModelLoaded
    /\ last.predicted = "ok"
    /\ last.proba = "transform_raises"
    /\ last.status = "ok"
    /\ last.probs = "None"

(***************************************************************************)
(* Properties of the registry (RegistrySpec).                              *)
(***************************************************************************)
\* C19: build(key, params) constructs the estimator with exactly the default
\* keys of the spec: a default key takes the value of params when params has
\* it and the default otherwise; keys of params that are no default key are
\* not passed to the constructor.
C19_BuildFiltersToDefaults ==
    (last.op = "build" /\ last.status = "ok")
    => LET dflt == RegistryDefaults[last.key]
       IN  /\ last.est.cls = RegistryCls[last.key]
           /\ DOMAIN last.est.params = DOMAIN dflt
           /\ \A k \in DOMAIN dflt :
                last.est.params[k] = IF k \in DOMAIN last.params
                                     THEN last.params[k] ELSE dflt[k]

\* build("logistic_regression", {"C": 2, "bogus_param": 1})
C19_Witness ==
    /\ last.op = "build"
    /\ last.status = "ok"
    /\ last.key = "logistic_regression"
    /\ "bogus_param" \in DOMAIN last.params
    /\ last.est.params.C = 2

\* C20: after any sequence of build, defaults and get calls, and of writes
\* into mappings defaults() returned, the default hyperparameters of every
\* registered ModelSpec are what they were at registration.
C20_DefaultsNeverChange ==
    registry = RegistryDefaults

\* a build with an override has just returned while a caller holds a mapping
\* from defaults() into which it has written
C20_Witness ==
    /\ last.op = "build"
    /\ last.status = "ok"
    /\ "C" \in DOMAIN last.params
    /\ \E i \in 1..Len(held) :
         /\ held[i].of = last.key
         /\ held[i].d # RegistryDefaults[held[i].of]

(***************************************************************************)
(* Properties of the transports (TransportSpec).                           *)
(***************************************************************************)
\* the core error kinds: a missing resource, a request that is not valid.
\* An unknown model key is the KeyError of registry.get
NotFoundKinds == {"DatasetNotFoundError", "ModelNotFoundError"}
ValidationKinds ==
    {"TargetColumnNotFoundError", "KeyError", "NoInstancesError",
     "DatasetReadError", "ValueError"}

\* C21: every core error of Train, Predict and DeleteModel is answered, by
\* the REST and by the gRPC transport, with the status of its kind: 404 /
\* NOT_FOUND for the not-found kinds, 400 / INVALID_ARGUMENT for the
\* validation kinds; none leaves a handler untranslated.
C21_ErrorsTranslated ==
    last.transport # "none"
    => /\ last.status \in NotFoundKinds
            => last.protocol = StatusNotFound[last.transport]
       /\ last.status \in ValidationKinds
            => last.protocol = StatusInvalid[last.transport]

\* a Train request with a model key the registry does not know, answered
\* with the status of an exception that left the handler
C21_UnknownKeyEscapes ==
    /\ last.op = "train"
    /\ last.stage = "build"
    /\ last.status = "KeyError"
    /\ last.protocol = StatusEscaped[last.transport]

(***************************************************************************)
(* Properties of repeated predict calls (RepeatSpec).                      *)
(***************************************************************************)
\* the model the kept answer was computed from is the one stored now
SameModel(a) ==
    /\ a.id \in Entries(indexFile)
    /\ a.id \in DOMAIN artifacts
    /\ ParseIndex(indexFile)[a.id] = a.entry
    /\ artifacts[a.id] = a.artifact

TrainedRecord == ParseIndex(indexFile)[last.mid]
TrainedEstimator == artifacts[last.mid].pipe.model

\* C23: the hyperparams stored in the record of a training run are the
\* hyperparameters the estimator of that run was constructed with, i.e. the
\* spec defaults overridden by the caller's recognized keys, and hold no key
\* the spec does not recognize.
C23_RecordedHyperparamsAreUsed ==
    (last.op = "train_model" /\ last.status = "ok")
    => /\ TrainedRecord.hyperparams = TrainedEstimator.params
       /\ DOMAIN TrainedRecord.hyperparams
            \subseteq DOMAIN RegistryDefaults[last.req.model_key]

\* a run whose caller passed a key the spec does not recognize: the
\* estimator was built without it, the record holds it
C23_UnrecognizedKeyStored ==
    /\ last.op = "train_model"
    /\ last.status = "ok"
    /\ \E k \in DOMAIN TrainedRecord.hyperparams :
         /\ k \notin DOMAIN RegistryDefaults[last.req.model_key]
         /\ k \notin DOMAIN TrainedEstimator.params

(***************************************************************************)
(* The frame of save_model and delete_model (SeqSpec).                     *)
(***************************************************************************)
\* the step is a save_model or delete_model call, run to its end
StoreWriteStep == last = NoCall /\ last'.op \in {"save_model", "delete_model"}

\* the id the call is about: the one save_model returned, the one
\* delete_model was given
WrittenId == IF last'.op = "save_model" THEN last'.mid ELSE last'.id

\* the index entry and the artifact file of every other id are as before
OthersUnchanged ==
    \A o \in ModelIds \ {WrittenId} :
        /\ o \in Entries(indexFile') <=> o \in Entries(indexFile)
        /\ o \in Entries(indexFile) => ParseIndex(indexFile')[o] = ParseIndex(indexFile)[o]
        /\ o \in DOMAIN artifacts' <=> o \in DOMAIN artifacts
        /\ o \in DOMAIN artifacts => artifacts'[o] = artifacts[o]

\* C24: save_model and delete_model change only the index entry and the
\* artifact of their id, and delete_model of an id absent from the index
\* leaves index.json as _ensure left it: as it was, or created empty when it
\* did not exist.
C24_FrameOfSaveAndDelete ==
    [][StoreWriteStep
        => /\ OthersUnchanged
           /\ (last'.op = "delete_model" /\ last'.id \notin Entries(indexFile))
              => indexFile' = Ensure(indexFile)]_vars

\* C24 as stated: ... and delete_model of an id absent from the index writes
\* nothing to index.json.
C24_AsStated ==
    [][StoreWriteStep
        => /\ OthersUnchanged
           /\ (last'.op = "delete_model" /\ last'.id \notin Entries(indexFile))
              => indexFile' = indexFile]_vars

\* delete_model of an id the index does not hold has returned False, and the
\* store holds the entry and the artifact of another id
C24_Witness ==
    /\ last.op = "delete_model"
    /\ last.status = "ok"
    /\ ~last.existed
    /\ \E o \in ModelIds \ {last.id} :
         o \in Entries(indexFile) /\ o \in DOMAIN artifacts

(***************************************************************************)
(* A load racing a retraining save (RetrainSpec).                          *)
(***************************************************************************)
\* what the save before the race wrote for model_id, and what the retraining
\* save writes for it
SavedBefore(model_id) ==
    [pipe |-> StoredPipe(model_id), meta |-> StoredRecord(model_id)]
SavedByRetrain(model_id) ==
    [pipe |-> ThreadRun.pipe, meta |-> Payload(ThreadRun.meta, model_id, Now)]

LoadReturned(p) ==
    procs[p].op = "load_model" /\ procs[p].pc = "done" /\ procs[p].status = "ok"

\* C25: in every interleaving of load_model(id) with a retraining
\* save_model(..., model_id=id), a load that returns gives the pipeline and
\* the metadata record of one and the same save.
C25_LoadSeesOneSave ==
    \A p \in Procs :
        LoadReturned(p)
        => [pipe |-> procs[p].pipe, meta |-> procs[p].meta]
             \in {SavedBefore(procs[p].id), SavedByRetrain(procs[p].id)}

\* a load has returned the artifact of the retraining save with the record of
\* the save before it
C25_NewArtifactOldRecord ==
    \E p \in Procs :
        /\ LoadReturned(p)
        /\ procs[p].pipe = SavedByRetrain(procs[p].id).pipe
        /\ procs[p].meta = SavedBefore(procs[p].id).meta

(***************************************************************************)
(* Index initialisation among concurrent threads (Spec).                   *)
(***************************************************************************)
\* thread p takes a step of the creation branch of _ensure: the open or the
\* write of INDEX_PATH.write_text("{}")
EnsureCreates(p) ==
    /\ procs[p].pc \in {"ensure_open", "ensure_write"}
    /\ procs'[p].pc # procs[p].pc

\* C26: index initialisation never destroys data: in every interleaving of
\* store operations, no step of the check-then-create of _ensure turns an
\* index that holds entries into one that holds none.
C26_EnsureKeepsEntries ==
    [][\A p \in Procs :
         (EnsureCreates(p) /\ Entries(indexFile) # {})
         => Entries(indexFile') # {}]_vars

\* a save_model has returned and its index write was the last one to end,
\* yet the index holds no entry: a thread that had found no index.json has
\* since opened it for its "{}"
C26_IndexEmptied ==
    \E p, q \in Procs :
        /\ procs[p].pc = "ensure_write"
        /\ procs[q].op = "save_model" /\ procs[q].pc = "done" /\ procs[q].status = "ok"
        /\ written.by = q
        /\ DOMAIN written.ix # {}
        /\ Entries(indexFile) = {}

====
